---- MODULE Spec2Model ----
(***************************************************************************)
(* Model of utils/pulse-fetch-data.py: the minute-aligned energy logger.   *)
(*                                                                         *)
(* Numbers.  Python floats are modelled as exact decimal fixed point:      *)
(*   - a kWh quantity  (value_kwh)              counts 1/KWH_DEN kWh       *)
(*   - a Wh quantity   (total_watt_hours, ...)  counts 1/WH_DEN  Wh        *)
(*   - a dollar amount (cost_dollars)           counts 1/DOLLAR_DEN dollar *)
(* A rendered number (f"{x:.0f}", f"{x:.6f}") is the pair sign/magnitude   *)
(* of the decimal text, the magnitude counted in units of the last digit.  *)
(*                                                                         *)
(* Time.  `now` is time.time() modulo 60 in whole seconds, `hour` the      *)
(* local hour of datetime.now(); timestamps of a row are kept to the hour. *)
(* A fetch takes up to MaxElapsed seconds; time.sleep returns on time.     *)
(*                                                                         *)
(* Environment.  The device answers each GET with any of Responses(device);*)
(* the logger may be killed and started again at any point (Restart).      *)
(***************************************************************************)
EXTENDS Integers, Sequences, FiniteSets, TLC

VARIABLES
    pc,                     \* position of main()
    argc,                   \* len(sys.argv)
    value_kwh,              \* main's value_kwh: None or <<v>>
    total_watt_hours_last,  \* main's baseline: Unbound or <<wh>>
    file_exists,            \* os.path.exists(LOG_FILE)
    file_rows,              \* rows of LOG_FILE, in file order
    now,                    \* time.time() % 60
    hour,                   \* datetime.now().hour
    utc_offset,             \* hours local time is ahead of UTC
    hours_elapsed,          \* hour boundaries the clock has crossed so far
    usage_printed,          \* the usage line was printed by this run
    exit_status,            \* NotExited or <<status>>
    device,                 \* the cumulative values the device may report
    response,               \* the response the fetch just made received
    next_minute,            \* sleep_until_next_minute's next_minute, while it sleeps
    sleep_ret,              \* where main continues after the sleep
    last_op,                \* history: last of "sleep"/"fetch" done by this run
    ops_done,               \* history: kinds of operation this run performed
    readings,               \* history: non-None fetch results of this run, in order
    run_deltas,             \* history: watt_hours computed by this run, in order
    appended                \* history: every row handed to write_csv_row, all runs

vars == <<pc, argc, value_kwh, total_watt_hours_last, file_exists, file_rows,
          now, hour, utc_offset, hours_elapsed, usage_printed, exit_status, device, response, next_minute,
          sleep_ret, last_op, ops_done, readings, run_deltas, appended>>

-----------------------------------------------------------------------------
(* Bounds of the model *)

MaxRows == 2        \* data rows the log file may hold
MaxElapsed == 1     \* seconds one fetch may take
MaxHours == 1       \* hour boundaries the clock may cross

(* Fixed-point resolutions *)
KWH_DEN == 10 * 1000
WH_DEN == 2 * 5
DOLLAR_DEN == 10 * 1000 * 1000
MICRO == 1000 * 1000

(* cumulative energy values a device may report, in 1/KWH_DEN kWh:
   0, 0.0005, 10.0000 and 10.2500 kWh *)
DeviceValues == {0, 5, 100000, 102500}

(* the two values of the end-to-end scenario: 10.000 and 10.250 kWh *)
ScenarioValues == {100000, 102500}
ScenarioHours == {18, 20}

(* one value is enough to log rows at every hour of the day *)
OneValue == {102500}

StartSeconds == {0, 1, 30, 59}
Hours == 0..23
SampleHours == {20}
UtcOffsets == {10}

None == <<>>
Some(v) == <<v>>
Unbound == <<>>
NotExited == <<>>

-----------------------------------------------------------------------------
(* Program constants *)

RATE_PER_KWH_CENTS == 30      \* RATE_PER_KWH = 0.30, in hundredths of a dollar

(* a peak window that includes its upper limit *)
PEAK_HOURS_Inclusive == 16..21

PEAK_HOURS == 16..20          \* range(16, 21)

CSV_HEADER == <<"datetime_utc", "datetime_local", "watt_hours", "cost_dollars", "is_peak">>

-----------------------------------------------------------------------------
(* What the device, or the network, may answer to one GET *)

NoBody == [shape |-> "none", value |-> 0]

Bodies(values) ==
    {[shape |-> "malformed", value |-> 0],      \* not JSON
     [shape |-> "no_value", value |-> 0],       \* JSON object without "value"
     [shape |-> "null_value", value |-> 0]}     \* {"value": null}
    \cup {[shape |-> "number", value |-> v] : v \in values}

Responses(values) ==
    {[transport |-> t, status |-> 0, body |-> NoBody] : t \in {"connection_error", "timeout"}}
    \cup {[transport |-> "ok", status |-> 404, body |-> [shape |-> "number", value |-> 0]]}
    \cup {[transport |-> "ok", status |-> 200, body |-> b] : b \in Bodies(values)}

NoResponse == [transport |-> "none", status |-> 0, body |-> NoBody]

(* fetch_energy_value: the value returned for response r *)
fetch_energy_value(r) ==
    IF r.transport # "ok" THEN None                 \* requests.get raises
    ELSE IF r.status >= 400 THEN None               \* raise_for_status raises
    ELSE IF r.body.shape = "malformed" THEN None    \* response.json() raises
    ELSE IF r.body.shape = "no_value" THEN Some(0)  \* data.get("value", 0.0)
    ELSE IF r.body.shape = "null_value" THEN None   \* float(None) raises
    ELSE Some(r.body.value)

-----------------------------------------------------------------------------
(* Arithmetic and rendering *)

Abs(x) == IF x < 0 THEN -x ELSE x

(* n/den rounded to the nearest integer, ties to even (n >= 0) *)
RoundHalfEven(n, den) ==
    LET q == n \div den
        r == n % den
    IN  IF 2 * r < den THEN q
        ELSE IF 2 * r > den THEN q + 1
        ELSE IF q % 2 = 0 THEN q ELSE q + 1

(* value_kwh * 1000, as a Wh quantity *)
KwhTimes1000(v) == (v * 1000 * WH_DEN) \div KWH_DEN

(* a delta that is never negative *)
WattHours_Clamped(total, last) == IF total < last THEN 0 ELSE total - last

(* watt_hours = total_watt_hours - total_watt_hours_last *)
WattHours(total, last) == total - last

(* a baseline that stays what the first reading made it *)
NextBaseline_KeepsFirst(total, last) == last

(* total_watt_hours_last = total_watt_hours *)
NextBaseline(total, last) == total

(* a cost that is never negative *)
CostDollars_NonNegative(wh) ==
    IF wh < 0 THEN 0
    ELSE wh * RATE_PER_KWH_CENTS * (DOLLAR_DEN \div (WH_DEN * 100 * 1000))

(* watt_hours * RATE_PER_KWH / 1000, as a dollar amount *)
CostDollars(wh) == wh * RATE_PER_KWH_CENTS * (DOLLAR_DEN \div (WH_DEN * 100 * 1000))

(* f"{watt_hours:.0f}" *)
Fmt0f(wh) == [neg |-> wh < 0, mag |-> RoundHalfEven(Abs(wh), WH_DEN)]

(* f"{cost_dollars:.6f}", magnitude in millionths *)
Fmt6f(c) == [neg |-> c < 0, mag |-> RoundHalfEven(Abs(c), DOLLAR_DEN \div MICRO)]

(* "TRUE" if now_local.hour in PEAK_HOURS else "FALSE" *)
IsPeak(h) == IF h \in PEAK_HOURS THEN "TRUE" ELSE "FALSE"

(* the row main() builds from watt_hours at local hour h *)
MakeRow(wh, h) ==
    <<(h + 24 - utc_offset) % 24, h, Fmt0f(wh), Fmt6f(CostDollars(wh)), IsPeak(h)>>

-----------------------------------------------------------------------------
InitWith(values, hours) ==
    /\ pc = "check_args"
    /\ argc \in {1, 2}
    /\ value_kwh = None
    /\ total_watt_hours_last = Unbound
    /\ file_exists = FALSE
    /\ file_rows = <<>>
    /\ now \in StartSeconds
    /\ hour \in hours
    /\ utc_offset \in UtcOffsets
    /\ hours_elapsed = 0
    /\ usage_printed = FALSE
    /\ exit_status = NotExited
    /\ device = values
    /\ response = NoResponse
    /\ next_minute = 0
    /\ sleep_ret = "none"
    /\ last_op = "none"
    /\ ops_done = {}
    /\ readings = <<>>
    /\ run_deltas = <<>>
    /\ appended = <<>>

Init == InitWith(DeviceValues, SampleHours)

InitAllHours == InitWith(OneValue, Hours)

InitScenario == InitWith(ScenarioValues, ScenarioHours)

Room == Len(appended) < MaxRows

(* the wall clock passes a minute boundary: the hour stays or moves on by one *)
ClockTick ==
    \/ UNCHANGED <<hour, hours_elapsed>>
    \/ /\ hours_elapsed < MaxHours
       /\ hour' = (hour + 1) % 24
       /\ hours_elapsed' = hours_elapsed + 1

(* an argument check that is off by one *)
CheckArgs_OffByOne ==
    /\ pc = "check_args"
    /\ IF argc < 1
       THEN /\ usage_printed' = TRUE
            /\ exit_status' = Some(1)
            /\ pc' = "exited"
       ELSE /\ pc' = "sync_sleep"
            /\ UNCHANGED <<usage_printed, exit_status>>
    /\ UNCHANGED <<argc, value_kwh, total_watt_hours_last, file_exists, file_rows,
                   now, hour, utc_offset, hours_elapsed, device, response,
                   next_minute, sleep_ret, last_op, ops_done, readings,
                   run_deltas, appended>>

(* main, lines 48-53 *)
CheckArgs ==
    /\ pc = "check_args"
    /\ IF argc < 2
       THEN /\ usage_printed' = TRUE
            /\ exit_status' = Some(1)
            /\ pc' = "exited"
       ELSE /\ pc' = "sync_sleep"
            /\ UNCHANGED <<usage_printed, exit_status>>
    /\ UNCHANGED <<argc, value_kwh, total_watt_hours_last, file_exists, file_rows,
                   now, hour, utc_offset, hours_elapsed, device, response,
                   next_minute, sleep_ret, last_op, ops_done, readings,
                   run_deltas, appended>>

(* sleep_until_next_minute, lines 41-44: reads the clock and calls time.sleep;
   main continues at `to` when the sleep returns *)
sleep_until_next_minute(to) ==
    /\ next_minute' = 60 - (now % 60)
    /\ sleep_ret' = to
    /\ pc' = "sleeping"
    /\ response' = NoResponse
    /\ UNCHANGED <<argc, value_kwh, total_watt_hours_last, file_exists, file_rows,
                   now, hour, utc_offset, hours_elapsed, usage_printed,
                   exit_status, device, last_op, ops_done, readings, run_deltas,
                   appended>>

(* time.sleep(next_minute) returns, next_minute seconds later *)
Wake ==
    /\ pc = "sleeping"
    /\ now' = (now + next_minute) % 60
    /\ ClockTick
    /\ next_minute' = 0
    /\ sleep_ret' = "none"
    /\ pc' = sleep_ret
    /\ last_op' = "sleep"
    /\ ops_done' = ops_done \cup {"sleep"}
    /\ UNCHANGED <<argc, value_kwh, total_watt_hours_last, file_exists, file_rows,
                   utc_offset, usage_printed, exit_status, device, response,
                   readings, run_deltas, appended>>

(* the call of fetch_energy_value at one of its two call sites *)
Fetch(resps, to_ok, to_none) ==
    /\ \E r \in resps, elapsed \in 0..MaxElapsed :
         /\ response' = r
         /\ value_kwh' = fetch_energy_value(r)
         /\ now' = (now + elapsed) % 60
         /\ readings' = IF fetch_energy_value(r) = None THEN readings
                        ELSE Append(readings, fetch_energy_value(r)[1])
         /\ pc' = IF fetch_energy_value(r) = None THEN to_none ELSE to_ok
    /\ last_op' = "fetch"
    /\ ops_done' = ops_done \cup {"fetch"}
    /\ UNCHANGED <<argc, hour, utc_offset, hours_elapsed, usage_printed,
                   exit_status, device, next_minute, sleep_ret, run_deltas,
                   appended>>

(* main, line 55 *)
SyncSleep == pc = "sync_sleep" /\ sleep_until_next_minute("fetch_initial")

(* main, line 58 *)
FetchInitial ==
    /\ pc = "fetch_initial"
    /\ Fetch(Responses(device), "seed_baseline", "seed_baseline")
    /\ UNCHANGED <<total_watt_hours_last, file_exists, file_rows>>

(* main, line 59: None * 1000 raises TypeError, which nothing catches *)
SeedBaseline ==
    /\ pc = "seed_baseline"
    /\ IF value_kwh = None
       THEN /\ pc' = "crashed"
            /\ exit_status' = Some(1)
            /\ UNCHANGED total_watt_hours_last
       ELSE /\ total_watt_hours_last' = Some(KwhTimes1000(value_kwh[1]))
            /\ pc' = "sleep_initial"
            /\ UNCHANGED exit_status
    /\ response' = NoResponse
    /\ UNCHANGED <<argc, value_kwh, file_exists, file_rows, now, hour, utc_offset,
                   hours_elapsed, usage_printed, device, next_minute, sleep_ret,
                   last_op, ops_done, readings, run_deltas, appended>>

(* main, line 60 *)
SleepInitial == pc = "sleep_initial" /\ sleep_until_next_minute("loop_fetch")

(* the responses a loop fetch may get: a reading only while the file has room *)
LoopResponses ==
    IF Room THEN Responses(device)
    ELSE {r \in Responses(device) : fetch_energy_value(r) = None}

(* a loop that forgets its baseline when a fetch fails *)
LoopFetch_ForgetsBaseline ==
    /\ pc = "loop_fetch"
    /\ Fetch(LoopResponses, "loop_log", "loop_sleep")
    /\ total_watt_hours_last' = IF value_kwh' = None THEN Some(0)
                                ELSE total_watt_hours_last
    /\ UNCHANGED <<file_exists, file_rows>>

(* main, lines 63-64 *)
LoopFetch ==
    /\ pc = "loop_fetch"
    /\ Fetch(LoopResponses, "loop_log", "loop_sleep")
    /\ UNCHANGED <<total_watt_hours_last, file_exists, file_rows>>

(* a write_csv_row that writes the header on every call *)
write_csv_row_HeaderAlways(row) ==
    /\ file_exists' = TRUE
    /\ file_rows' = file_rows \o <<CSV_HEADER, row>>

(* write_csv_row(row) *)
write_csv_row(row) ==
    /\ file_exists' = TRUE
    /\ file_rows' = IF ~file_exists THEN <<CSV_HEADER, row>>
                    ELSE Append(file_rows, row)

(* main, lines 65-87 *)
LoopLog ==
    /\ pc = "loop_log"
    /\ LET total_watt_hours == KwhTimes1000(value_kwh[1])
           watt_hours == WattHours(total_watt_hours, total_watt_hours_last[1])
           row == MakeRow(watt_hours, hour)
       IN  /\ total_watt_hours_last' = Some(NextBaseline(total_watt_hours, total_watt_hours_last[1]))
           /\ write_csv_row(row)
           /\ run_deltas' = Append(run_deltas, watt_hours)
           /\ appended' = Append(appended, row)
    /\ ops_done' = ops_done \cup {"write"}
    /\ pc' = "loop_sleep"
    /\ response' = NoResponse
    /\ UNCHANGED <<argc, value_kwh, now, hour, utc_offset, hours_elapsed,
                   usage_printed, exit_status, device, next_minute, sleep_ret,
                   last_op, readings>>

(* main, line 90 *)
LoopSleep == pc = "loop_sleep" /\ sleep_until_next_minute("loop_fetch")

(* the process is killed, or has ended, and the logger is started again
   (while the log file has room for a row) *)
Restart ==
    /\ pc # "check_args"
    /\ Room
    /\ pc' = "check_args"
    /\ argc' \in {1, 2}
    /\ value_kwh' = None
    /\ total_watt_hours_last' = Unbound
    /\ now' \in StartSeconds
    /\ ClockTick
    /\ usage_printed' = FALSE
    /\ exit_status' = NotExited
    /\ response' = NoResponse
    /\ next_minute' = 0
    /\ sleep_ret' = "none"
    /\ last_op' = "none"
    /\ ops_done' = {}
    /\ readings' = <<>>
    /\ run_deltas' = <<>>
    /\ UNCHANGED <<file_exists, file_rows, utc_offset, device, appended>>

Next ==
    \/ CheckArgs
    \/ SyncSleep
    \/ FetchInitial
    \/ SeedBaseline
    \/ SleepInitial
    \/ LoopFetch
    \/ LoopLog
    \/ LoopSleep
    \/ Wake
    \/ Restart

Spec == Init /\ [][Next]_vars

SpecAllHours == InitAllHours /\ [][Next]_vars

SpecScenario == InitScenario /\ [][Next]_vars

TypeOK ==
    /\ pc \in {"check_args", "sync_sleep", "fetch_initial", "seed_baseline",
               "sleep_initial", "loop_fetch", "loop_log", "loop_sleep",
               "sleeping", "exited", "crashed"}
    /\ now \in 0..59
    /\ hour \in Hours

-----------------------------------------------------------------------------
(* Helpers of the properties *)

RECURSIVE SumSeq(_)
SumSeq(q) == IF q = <<>> THEN 0 ELSE q[1] + SumSeq(Tail(q))

(* (b - a) kWh, as a Wh quantity *)
DiffWh(a, b) == ((b - a) * 1000 * WH_DEN) \div KWH_DEN

Running == pc \notin {"check_args", "exited", "crashed"}

(* main has seeded its baseline: it is in the loop or in the sleep before it *)
InLoop == \/ pc \in {"sleep_initial", "loop_fetch", "loop_log", "loop_sleep"}
          \/ pc = "sleeping" /\ sleep_ret = "loop_fetch"

(* the rows of the file that this run wrote *)
RunRows == SubSeq(appended, Len(appended) - Len(run_deltas) + 1, Len(appended))

FailureResponse(r) ==
    \/ r.transport # "ok"
    \/ r.status < 200 \/ r.status > 299
    \/ r.body.shape # "number"

-----------------------------------------------------------------------------
(* C1: no fetch failure aborts the logger: a process that has ended is one  *)
(* that was started without the device argument and printed the usage.      *)
C1_OnlyUsageExitTerminates ==
    (pc \in {"exited", "crashed"} \/ exit_status # NotExited)
        => (argc < 2 /\ usage_printed /\ pc = "exited")

(* C2: fetch_energy_value returns None for every response that is a network *)
(* failure, a timeout, a non-2xx status, or a body that is malformed or     *)
(* lacks a numeric `value`; otherwise it returns the `value` field.         *)
C2_FetchFailureIffNoValue ==
    response # NoResponse =>
        IF FailureResponse(response)
        THEN value_kwh = None
        ELSE value_kwh = Some(response.body.value)

(* C3: a loop fetch that returns None leaves the baseline and the log file  *)
(* unchanged and leads straight to the next sleep, which leaves them        *)
(* unchanged too; the baseline is still the last successful reading.        *)
C3_FailedFetchStep ==
    (pc = "loop_fetch" /\ pc' # "check_args" /\ value_kwh' = None)
        => /\ pc' = "loop_sleep"
           /\ UNCHANGED <<total_watt_hours_last, file_exists, file_rows>>

C3_FailedIntervalSleeps ==
    (pc = "loop_sleep" /\ value_kwh = None /\ pc' # "check_args")
        => /\ pc' = "sleeping" /\ sleep_ret' = "loop_fetch"
           /\ UNCHANGED <<total_watt_hours_last, file_exists, file_rows>>

C3_BaselineIsLastSuccess ==
    (InLoop /\ value_kwh = None)
        => /\ Len(readings) = Len(run_deltas) + 1
           /\ total_watt_hours_last = Some(DiffWh(0, readings[Len(readings)]))

(* C3: both steps of a failed interval change neither the baseline nor the *)
(* file, and after any number of failed intervals the baseline is still the *)
(* last successful reading of the run.                                      *)
C3_FailedIntervalChangesNothing ==
    /\ []C3_BaselineIsLastSuccess
    /\ [][C3_FailedFetchStep /\ C3_FailedIntervalSleeps]_vars

C3_Witness ==
    /\ pc = "loop_sleep"
    /\ value_kwh = None
    /\ Len(run_deltas) = 1
    /\ file_exists

(* C4: the i-th delta of a run is (reading i+1 - reading i) x 1000, zero    *)
(* and negative results included, the row logs it rendered with no          *)
(* decimals, and the baseline is the last reading processed.                *)
C4_DeltaIsDifferenceOfConsecutiveReadings ==
    InLoop =>
        /\ \A i \in 1..Len(run_deltas) :
              /\ run_deltas[i] = DiffWh(readings[i], readings[i + 1])
              /\ RunRows[i][3] = Fmt0f(DiffWh(readings[i], readings[i + 1]))
        /\ total_watt_hours_last = Some(DiffWh(0, readings[Len(run_deltas) + 1]))

C4_Witness ==
    /\ pc = "loop_sleep"
    /\ readings = <<100000, 102500, 5>>
    /\ run_deltas = <<2500, -102495>>
    /\ RunRows[2][3] = [neg |-> TRUE, mag |-> 10250]
    /\ total_watt_hours_last = Some(5)

(* C5: the log file does not exist until the first write_csv_row; from then *)
(* on it is the header followed by every row handed to write_csv_row, in    *)
(* call order, over all runs of the logger.                                 *)
C5_FileIsHeaderThenRows ==
    IF appended = <<>>
    THEN ~file_exists /\ file_rows = <<>>
    ELSE /\ file_exists
         /\ Len(file_rows) = Len(appended) + 1
         /\ file_rows[1] = CSV_HEADER
         /\ \A i \in 1..Len(appended) :
               /\ file_rows[i + 1][5] \in {"TRUE", "FALSE"}
               /\ file_rows[i + 1] = appended[i]

C5_Witness ==
    /\ Len(appended) = 2
    /\ Len(run_deltas) = 1
    /\ Len(file_rows) = 3

(* C6: the is_peak field of a row is "TRUE" exactly when the local hour of  *)
(* the row is one of 16, 17, 18, 19, 20, and "FALSE" otherwise.             *)
C6_PeakIffHourIn16To20 ==
    \A i \in 2..Len(file_rows) :
        /\ file_rows[i][5] \in {"TRUE", "FALSE"}
        /\ (file_rows[i][5] = "TRUE") <=> (file_rows[i][2] \in {16, 17, 18, 19, 20})

C6_Witness ==
    /\ Len(file_rows) = 3
    /\ file_rows[2][2] = 20 /\ file_rows[2][5] = "TRUE"
    /\ file_rows[3][2] = 21 /\ file_rows[3][5] = "FALSE"
    /\ file_rows[2][3] = file_rows[3][3]

(* C7: the cost of a row is its delta x 0.30 / 1000 dollars whatever its    *)
(* is_peak: 300 millionths of a dollar per watt-hour, 0 for 0, negative for *)
(* a negative delta; 10.000 then 10.250 kWh at hour 18 logs 250, 0.075000,  *)
(* TRUE.                                                                    *)
C7_CostIsFlatRate ==
    /\ \A i \in 1..Len(run_deltas) :
          /\ RunRows[i][4].mag * WH_DEN = 300 * Abs(run_deltas[i])
          /\ RunRows[i][4].neg = (run_deltas[i] < 0)
    /\ \A i \in 1..Len(run_deltas) :
          (readings[i] = 100000 /\ readings[i + 1] = 102500 /\ RunRows[i][2] = 18)
              => /\ RunRows[i][3] = [neg |-> FALSE, mag |-> 250]
                 /\ RunRows[i][4] = [neg |-> FALSE, mag |-> 75000]
                 /\ RunRows[i][5] = "TRUE"

C7_Witness ==
    /\ Len(run_deltas) = 2
    /\ readings = <<100000, 102500, 100000>>
    /\ RunRows[1][2] = 18
    /\ RunRows[1][4] = [neg |-> FALSE, mag |-> 75000]
    /\ RunRows[2][4] = [neg |-> TRUE, mag |-> 75000]

(* C8: started without the device argument, the logger prints the usage and *)
(* exits with status 1, having slept, fetched and written nothing.          *)
C8_MissingArgumentExits ==
    (argc < 2 /\ pc # "check_args")
        => /\ pc = "exited"
           /\ usage_printed
           /\ exit_status = Some(1)
           /\ ops_done = {}
           /\ run_deltas = <<>>

C8_Witness ==
    /\ pc = "exited"
    /\ argc = 1
    /\ Len(file_rows) = 2

(* C9: every sleep lasts 60 - (now mod 60) seconds, more than 0 and at most *)
(* 60, and ends on a minute boundary; every fetch comes right after a       *)
(* sleep; and a logger that is running never ends.                          *)
C9_SleepIsAligned ==
    pc = "sleeping" =>
        /\ next_minute = 60 - (now % 60)
        /\ next_minute > 0 /\ next_minute <= 60
        /\ (now + next_minute) % 60 = 0

C9_SleepBeforeFetch ==
    pc \in {"fetch_initial", "loop_fetch"} => (last_op = "sleep" /\ now = 0)

C9_NeverEnds ==
    (argc >= 2 /\ pc # "check_args") => (Running /\ exit_status = NotExited)

(* C9: the three parts together: aligned sleeps, a sleep before every      *)
(* fetch, and no end once running.                                          *)
C9_AlignedSleepBeforeEveryFetchForever ==
    C9_SleepIsAligned /\ C9_SleepBeforeFetch /\ C9_NeverEnds

(* C10: in the main loop the deltas of the run sum to the baseline minus    *)
(* the seeded baseline, and the run has written one row per successful      *)
(* fetch but the seeding one (the fetch being logged not counted).          *)
C10_DeltasSumToBaselineChange ==
    InLoop =>
        /\ SumSeq(run_deltas) = total_watt_hours_last[1] - DiffWh(0, readings[1])
        /\ Len(RunRows) = Len(run_deltas)
        /\ Len(run_deltas) = Len(readings) - 1 - (IF pc = "loop_log" THEN 1 ELSE 0)

C10_Witness ==
    /\ pc = "loop_fetch"
    /\ value_kwh = None
    /\ readings = <<102500, 0, 5>>
    /\ run_deltas = <<-102500, 5>>

====
